---------------------------- MODULE Spec2Model ----------------------------
(***************************************************************************)
(* The SIXS backend of binoculars (src/binoculars/backends/sixs.py):       *)
(* the job splitter generate_jobs, the per-job frame generator process_job *)
(* with its storage handle, the kinematic chain resolver get_axes and the  *)
(* pairing of angle values with chain axes in process_image.               *)
(*                                                                         *)
(* Python's None is the empty tuple <<>>, a present value x is <<x>>       *)
(* where the two have to be told apart.  config.pr is <<>> (None) or the   *)
(* pair <<a, b>>.  A generator is a position (where it is suspended) plus  *)
(* its locals; one action is one next() call, run to the next yield, to    *)
(* StopIteration or to the exception that leaves the generator.            *)
(***************************************************************************)
EXTENDS Integers, Sequences, FiniteSets, TLC

VARIABLES
    config,        \* self.config: target_weight, pr; backend: the class in use
    scans,         \* util.parse_multi_range(command): the scan numbers
    files,         \* the scan files on disk, by scan number
    gpc,           \* generate_jobs: where the generator is suspended
    gi,            \* generate_jobs: position of scanno in scans (0 before the loop)
    start,         \* generate_jobs: local start
    pointcount,    \* generate_jobs: local pointcount
    ci,            \* generate_jobs: number of slices taken from chunk_slicer
    gerr,          \* the exception that left generate_jobs ("" if none)
    jobs,          \* the jobs yielded by generate_jobs, in order
    cur,           \* position in jobs of the job process_job was last called with
    ppc,           \* process_job: where the generator is
    group,         \* process_job: number of dataframes taken from dataframes()
    index,         \* process_job: loop variable index
    frames,        \* the results yielded by process_job for job cur, in order
    perr,          \* the exception that left process_job (<<>> if none)
    handles,       \* tables.open_file handles opened by process_job, in order
    diffractometer,\* the Diffractometer dataframes() built for job cur (<<>> if none)
    dbg_scanno,    \* SIXS.dbg_scanno
    dbg_pointno    \* SIXS.dbg_pointno

vars == <<config, scans, files, gpc, gi, start, pointcount, ci, gerr, jobs,
          cur, ppc, group, index, frames, perr, handles, diffractometer,
          dbg_scanno, dbg_pointno>>

genvars == <<gpc, gi, start, pointcount, ci, gerr, jobs>>
procvars == <<cur, ppc, group, index, frames, perr, handles, diffractometer>>
envvars == <<config, scans, files, dbg_scanno, dbg_pointno>>

-----------------------------------------------------------------------------
(* Bounds of the model.                                                    *)

\* largest point count of a scan in the job-splitter specification
MaxN == 100
\* largest target weight in the job-splitter specification
MaxT == 45
\* largest point count of a scan in the run specification
MaxPts == 2

\* first bounds of a point-range override
Starts == {0, 3}
\* target weights of the run specification
TargetWeights == {1, 2}
\* point-range overrides of the run specification (None, a range, a reversed range)
RunOverrides == {<<>>, <<1, 2>>, <<2, 1>>}
\* the commands of the run specification, parsed: no scan, one scan, two scans
Commands == {<<>>, <<1>>, <<1, 2>>}
\* numbers of top-level groups in a scan file
GroupCounts == {0, 1, 2}
\* config.detrot: None, or an angle in degrees
Detrots == {<<>>, <<2>>}

-----------------------------------------------------------------------------
(* Helpers.                                                                *)

Min(a, b) == IF a < b THEN a ELSE b

Last(s) == s[Len(s)]

RECURSIVE Pow2Floor(_)
\* the largest power of two that is <= n, for n >= 1
Pow2Floor(n) == IF n < 2 THEN 1 ELSE 2 * Pow2Floor(n \div 2)

RECURSIVE SumWeights(_)
SumWeights(s) == IF s = <<>> THEN 0 ELSE s[1].weight + SumWeights(Tail(s))


-----------------------------------------------------------------------------
(* The scan files and the configuration.                                   *)

ZAXIS == "ZAXIS"
SOLEIL_SIXS_MED1_2 == "SOLEIL SIXS MED1+2"

\* diffractometer names a scan file may carry: the two supported ones and
\* two that get_axes does not know
Names == {ZAXIS, SOLEIL_SIXS_MED1_2, "SOLEIL SIXS MED2+2", "zaxis"}

Backends == {"FlyScanUHV", "FlyScanUHV2", "SBSMedH"}

ScanIds == {1, 2}

\* a scan file that os.path.exists does not find
MissingFile == [exists |-> FALSE, points |-> 0, name |-> "", groups |-> 0]

\* a scan file: points is the first dimension of the image array (what
\* get_pointcount returns), name is node.type[0][:-1] of its NXdiffractometer
\* node, groups the number of children of its root node.  A file without
\* a group has no NXdiffractometer node, and so no name.
ScanFiles(maxpoints) ==
    [exists : {TRUE}, points : 0..maxpoints, name : Names,
     groups : GroupCounts \ {0}]
    \cup [exists : {TRUE}, points : 0..maxpoints, name : {""},
          groups : GroupCounts \cap {0}]

-----------------------------------------------------------------------------
(* generate_jobs.                                                          *)

\* backend.Job(scan=, firstpoint=, lastpoint=, weight=)
Job(scan, firstpoint, lastpoint, weight) ==
    [scan |-> scan, firstpoint |-> firstpoint, lastpoint |-> lastpoint,
     weight |-> weight]

\* SIXS.get_filename, with the mistake of not looking whether the file exists
get_filenameUnchecked(scanno) == [raise |-> "", value |-> scanno]

\* SIXS.get_filename: raises ConfigError when the file does not exist
get_filename(scanno) ==
    IF files[scanno].exists
      THEN [raise |-> "", value |-> scanno]
      ELSE [raise |-> "ConfigError", value |-> scanno]

\* get_pointcount: opens the file (and closes it on return), reads the
\* first dimension of the image array
get_pointcount(scanno) ==
    IF get_filename(scanno).raise # ""
      THEN [raise |-> get_filename(scanno).raise, value |-> 0]
      ELSE [raise |-> "", value |-> files[scanno].points]

\* lines 369-374, with the mistake of counting pr[1] - pr[0] points
PointRangeExclusive(scanno) ==
    IF config.pr # <<>>
      THEN [raise |-> "", start |-> config.pr[1],
            pointcount |-> config.pr[2] - config.pr[1]]
      ELSE [raise |-> get_pointcount(scanno).raise, start |-> 0,
            pointcount |-> get_pointcount(scanno).value]

\* lines 369-374: the point range of a scan, from config.pr when it is set
\* (a non-empty tuple is true), else from the file
PointRange(scanno) ==
    IF config.pr # <<>>
      THEN [raise |-> "", start |-> config.pr[1],
            pointcount |-> config.pr[2] - config.pr[1] + 1]
      ELSE [raise |-> get_pointcount(scanno).raise, start |-> 0,
            pointcount |-> get_pointcount(scanno).value]

\* fl(target_weight * 1.4) < target_weight * 7/5.  The literal 1.4 is the
\* double 0x3FF6666666666666 = 1.4 - 0.4 * 2^-52, so the exact product of an
\* integer T = 5k with it is 7k - 2k * 2^-52; with 2^e <= 7k < 2^(e+1) the
\* doubles below 7k are 2^(e-52) apart, and round-to-nearest-even gives the
\* double below 7k exactly when 2k * 2^-52 > 2^(e-53), i.e. 4k > 2^e.
ProductRoundsBelow(target_weight) ==
    /\ target_weight % 5 = 0
    /\ 4 * (target_weight \div 5) > Pow2Floor(7 * (target_weight \div 5))

\* line 375: pointcount > self.config.target_weight * 1.4, an int compared
\* with a double product.  When 1.4 * T is no integer the rounding cannot
\* change the comparison with an integer (it is at least 0.2 away from one).
ExceedsThreshold(pc, target_weight) ==
    \/ 5 * pc > 7 * target_weight
    \/ 5 * pc = 7 * target_weight /\ ProductRoundsBelow(target_weight)

\* util.chunk_slicer(count, chunksize): the slices [start, stop) of
\* chunksize points each, the last one holding what remains
chunk_slicer(count, chunksize) ==
    [i \in 1..((count + chunksize - 1) \div chunksize) |->
        [start |-> (i - 1) * chunksize, stop |-> Min(count, i * chunksize)]]

\* lines 378-381, with the mistake of taking s.stop as the last point
SliceJobInclusiveStop(scanno, st, s) ==
    Job(scanno, st + s.start, st + s.stop, s.stop - s.start)

\* lines 378-381: the job of one slice
SliceJob(scanno, st, s) ==
    Job(scanno, st + s.start, st + s.stop - 1, s.stop - s.start)

\* lines 383-386: the job of a whole scan
SingleJob(scanno, st, pc) == Job(scanno, st, st + pc - 1, pc)

\* the generator is where the for loop over scans takes its next scan:
\* before its first next(), after the single job of a scan, or after the
\* last slice of a scan
AtLoopHead ==
    \/ gpc = "start"
    \/ gpc = "single"
    \/ gpc = "chunk" /\ ci = Len(chunk_slicer(pointcount, config.target_weight))

\* next(): the loop takes the next scan and yields its first job
GenNextScan ==
    /\ AtLoopHead
    /\ gi < Len(scans)
    /\ LET scanno == scans[gi + 1]
           r == PointRange(scanno)
       IN  /\ r.raise = ""
           /\ gi' = gi + 1
           /\ start' = r.start
           /\ pointcount' = r.pointcount
           /\ IF ExceedsThreshold(r.pointcount, config.target_weight)
                THEN /\ gpc' = "chunk"
                     /\ ci' = 1
                     /\ jobs' = Append(jobs, SliceJob(scanno, r.start,
                           chunk_slicer(r.pointcount, config.target_weight)[1]))
                ELSE /\ gpc' = "single"
                     /\ ci' = 0
                     /\ jobs' = Append(jobs,
                           SingleJob(scanno, r.start, r.pointcount))
    /\ UNCHANGED <<gerr, procvars, envvars>>

\* next(): the loop over chunk_slicer yields the job of the next slice
GenNextChunk ==
    /\ gpc = "chunk"
    /\ ci < Len(chunk_slicer(pointcount, config.target_weight))
    /\ ci' = ci + 1
    /\ jobs' = Append(jobs, SliceJob(scans[gi], start,
                  chunk_slicer(pointcount, config.target_weight)[ci + 1]))
    /\ UNCHANGED <<gpc, gi, start, pointcount, gerr, procvars, envvars>>

\* next(): the loop takes the next scan and get_pointcount raises
GenRaise ==
    /\ AtLoopHead
    /\ gi < Len(scans)
    /\ PointRange(scans[gi + 1]).raise # ""
    /\ gi' = gi + 1
    /\ gpc' = "raised"
    /\ gerr' = PointRange(scans[gi + 1]).raise
    /\ UNCHANGED <<start, pointcount, ci, jobs, procvars, envvars>>

\* next(): no scan is left (none at all when no scan was selected)
GenStop ==
    /\ AtLoopHead
    /\ gi = Len(scans)
    /\ gpc' = "done"
    /\ UNCHANGED <<gi, start, pointcount, ci, gerr, jobs, procvars, envvars>>

-----------------------------------------------------------------------------
(* get_axes: the kinematic graph and the chains of a diffractometer.       *)

\* the simple paths from a to b along the edges of graph g
Paths(g, a, b) ==
    {p \in UNION {[1..n -> DOMAIN g.node] : n \in 1..Cardinality(DOMAIN g.node)} :
        /\ p[1] = a
        /\ p[Len(p)] = b
        /\ \A i \in 1..(Len(p) - 1) : <<p[i], p[i + 1]>> \in g.edges
        /\ \A i, j \in 1..Len(p) : p[i] = p[j] => i = j}

\* networkx.dijkstra_path with unit edge weights: a path from source to
\* target with the fewest edges
dijkstra_path(g, source, target) ==
    CHOOSE p \in Paths(g, source, target) :
        \A q \in Paths(g, source, target) : Len(p) <= Len(q)

\* lines 184-191, with one more edge, from mu straight to gamma
ZaxisGraphShortcut ==
    [node |-> ("mu" :> <<0, 0, 1>>) @@ ("omega" :> <<0, -1, 0>>) @@
              ("delta" :> <<0, -1, 0>>) @@ ("gamma" :> <<0, 0, 1>>),
     edges |-> {<<"mu", "omega">>, <<"mu", "delta">>, <<"delta", "gamma">>,
                <<"mu", "gamma">>}]

\* lines 184-191: the ZAXIS graph, each node with the axis of its Rotation
ZaxisGraph ==
    [node |-> ("mu" :> <<0, 0, 1>>) @@ ("omega" :> <<0, -1, 0>>) @@
              ("delta" :> <<0, -1, 0>>) @@ ("gamma" :> <<0, 0, 1>>),
     edges |-> {<<"mu", "omega">>, <<"mu", "delta">>, <<"delta", "gamma">>}]

\* lines 197-204: the SOLEIL SIXS MED1+2 graph
Med12Graph ==
    [node |-> ("pitch" :> <<0, -1, 0>>) @@ ("mu" :> <<0, 0, 1>>) @@
              ("gamma" :> <<0, 0, 1>>) @@ ("delta" :> <<0, -1, 0>>),
     edges |-> {<<"pitch", "mu">>, <<"pitch", "gamma">>, <<"gamma", "delta">>}]

\* DiGraph(): no node, no edge
EmptyGraph == [node |-> <<>>, edges |-> {}]

\* lines 182-194: the axes of ZAXIS
ZaxisAxes ==
    [raise |-> "",
     sample |-> dijkstra_path(ZaxisGraph, "mu", "omega"),
     detector |-> dijkstra_path(ZaxisGraph, "mu", "gamma"),
     graph |-> ZaxisGraph]

\* lines 195-207: the axes of SOLEIL SIXS MED1+2
Med12Axes ==
    [raise |-> "",
     sample |-> dijkstra_path(Med12Graph, "pitch", "mu"),
     detector |-> dijkstra_path(Med12Graph, "pitch", "delta"),
     graph |-> Med12Graph]

\* get_axes, with the mistake of returning the initial empty chains for a
\* name it does not know
get_axesNoRaise(name) ==
    IF name = ZAXIS THEN ZaxisAxes
    ELSE IF name = SOLEIL_SIXS_MED1_2 THEN Med12Axes
    ELSE [raise |-> "", sample |-> <<>>, detector |-> <<>>,
          graph |-> EmptyGraph]

\* get_axes(name): Axes(sample, detector, graph), or NotImplementedError
\* ("not yet supported diffractometer type:" + name)
get_axes(name) ==
    IF name = ZAXIS THEN ZaxisAxes
    ELSE IF name = SOLEIL_SIXS_MED1_2 THEN Med12Axes
    ELSE [raise |-> "NotImplementedError", sample |-> <<>>, detector |-> <<>>,
          graph |-> EmptyGraph]

\* get_diffractometer(hfile): the name read from the file and its axes.
\* get_nxclass returns None when the file holds no NXdiffractometer node,
\* and node.type is then an AttributeError.
get_diffractometer(file) ==
    IF file.groups = 0
      THEN [raise |-> "AttributeError", name |-> file.name,
            axes |-> [raise |-> "AttributeError", sample |-> <<>>,
                      detector |-> <<>>, graph |-> EmptyGraph]]
      ELSE [raise |-> get_axes(file.name).raise,
            name |-> file.name,
            axes |-> get_axes(file.name)]

-----------------------------------------------------------------------------
(* process_image: the angle values and the rotations.                      *)

\* FlyScanUHV.HPATH, FlyScanUHV2.HPATH, SBSMedH.HPATH: key -> node name
HPATH(backend) ==
    CASE backend = "FlyScanUHV" ->
           ("image" :> "xpad_image") @@ ("mu" :> "UHV_MU") @@
           ("omega" :> "UHV_OMEGA") @@ ("delta" :> "UHV_DELTA") @@
           ("gamma" :> "UHV_GAMMA")
      [] backend = "FlyScanUHV2" ->
           ("image" :> "xpad_image") @@ ("mu" :> "mu") @@
           ("omega" :> "omega") @@ ("delta" :> "delta") @@
           ("gamma" :> "gamma")
      [] backend = "SBSMedH" ->
           ("image" :> "data_03") @@ ("pitch" :> "data_22") @@
           ("mu" :> "data_18") @@ ("gamma" :> "data_20") @@
           ("delta" :> "data_19")

\* h5_nodes[key][index]: the value at index of the node HPATH names for key
Value(backend, key, idx) ==
    [key |-> key, node |-> HPATH(backend)[key], index |-> idx]

\* get_values(index, h5_nodes): SBSMedH overrides it, FlyScanUHV2 inherits
\* FlyScanUHV's
get_values(backend, idx) ==
    IF backend = "SBSMedH"
      THEN [image |-> Value(backend, "image", idx),
            s_values |-> <<Value(backend, "pitch", idx),
                           Value(backend, "mu", idx)>>,
            d_values |-> <<Value(backend, "pitch", idx),
                           Value(backend, "gamma", idx),
                           Value(backend, "delta", idx)>>]
      ELSE [image |-> Value(backend, "image", idx),
            s_values |-> <<Value(backend, "mu", idx),
                           Value(backend, "omega", idx)>>,
            d_values |-> <<Value(backend, "mu", idx),
                           Value(backend, "delta", idx),
                           Value(backend, "gamma", idx)>>]

\* rotation_axes(graph, nodes): the axis vector of each node
rotation_axes(graph, nodes) ==
    [i \in 1..Len(nodes) |-> graph.node[nodes[i]]]

\* reduce(numpy.dot, zip_with(M, values, axes)): zip stops at the shorter
\* list; the product M(v1, u1) . M(v2, u2) ... is kept as the list of its
\* factors, left to right
rotation_product(values, axes) ==
    [i \in 1..Min(Len(values), Len(axes)) |-> [theta |-> values[i], u |-> axes[i]]]

\* process_image(index, dataframe, pixels): the result for one point, its
\* intensity and the rotations R and P of its PDataFrame; detrot, when
\* set, is one more factor of P about [1, 0, 0]
process_image(idx, d) ==
    LET v == get_values(config.backend, idx)
        R == rotation_product(v.s_values,
                              rotation_axes(d.axes.graph, d.axes.sample))
        P == rotation_product(v.d_values,
                              rotation_axes(d.axes.graph, d.axes.detector))
    IN  [index |-> idx,
         intensity |-> v.image,
         R |-> R,
         P |-> IF config.detrot = <<>> THEN P
               ELSE Append(P, [theta |-> [key |-> "detrot", node |-> "",
                                          index |-> config.detrot[1]],
                               u |-> <<1, 0, 0>>])]

-----------------------------------------------------------------------------
(* process_job.                                                            *)

\* what a point of a job may fail with (a read past the arrays of the
\* file, for one)
Failures == {"IndexError"}

\* lines 398-400: the message added to exc.args names dbg_scanno and
\* dbg_pointno; the exception is raised again
Annotate(type, where) ==
    [type |-> type, raised_in |-> where,
     note |-> <<[scan |-> dbg_scanno, point |-> dbg_pointno]>>]

\* leaving the with block of line 390 without closing the file
WithExitLeak(hs) == hs

\* leaving the with block of line 390: the file opened last is closed
WithExit(hs) == [hs EXCEPT ![Len(hs)].state = "closed"]

\* tables.open_file(..., 'r') for the job at position j of jobs
OpenFile(hs, j) == Append(hs, [job |-> j, state |-> "open"])

\* the job process_job is called with next: jobs are processed in the order
\* they were handed out, one at a time
Idle == ppc \in {"idle", "done", "failed", "closed"}

\* lines 393-395, with the mistake of range(firstpoint, lastpoint + 2)
NextPointPastLast(g, i, job, ngroups) ==
    IF g >= 1 /\ i <= job.lastpoint
      THEN <<g, i + 1>>
    ELSE IF g < ngroups /\ job.firstpoint <= job.lastpoint
      THEN <<g + 1, job.firstpoint>>
    ELSE <<>>

\* lines 393-395: the loops over the dataframes (one per group of the
\* file) and over range(firstpoint, lastpoint + 1); the position after
\* (g, i), as <<g, i>>, or <<>> when both loops are over.  g = 0 is the
\* position before the first dataframe.
NextPoint(g, i, job, ngroups) ==
    IF g >= 1 /\ i < job.lastpoint
      THEN <<g, i + 1>>
    ELSE IF g < ngroups /\ job.firstpoint <= job.lastpoint
      THEN <<g + 1, job.firstpoint>>
    ELSE <<>>

\* first next(): get_filename raises ConfigError, before the file is opened
\* and outside the try
ProcStartConfigError ==
    /\ Idle
    /\ cur < Len(jobs)
    /\ get_filename(jobs[cur + 1].scan).raise # ""
    /\ cur' = cur + 1
    /\ ppc' = "failed"
    /\ perr' = <<[type |-> get_filename(jobs[cur + 1].scan).raise,
                  raised_in |-> "get_filename", note |-> <<>>]>>
    /\ frames' = <<>>
    /\ group' = 0
    /\ index' = jobs[cur + 1].firstpoint
    /\ diffractometer' = <<>>
    /\ UNCHANGED <<handles, genvars, envvars>>

\* first next(): the file is opened, dataframes() calls get_diffractometer
\* and it (no NXdiffractometer node) or get_axes (unknown name) raises; the exception is annotated, the file closed
ProcStartGeometryError ==
    /\ Idle
    /\ cur < Len(jobs)
    /\ get_filename(jobs[cur + 1].scan).raise = ""
    /\ LET d == get_diffractometer(files[jobs[cur + 1].scan])
       IN  /\ d.raise # ""
           /\ perr' = <<Annotate(d.raise, "dataframes")>>
    /\ cur' = cur + 1
    /\ ppc' = "failed"
    /\ handles' = WithExit(OpenFile(handles, cur + 1))
    /\ frames' = <<>>
    /\ group' = 0
    /\ index' = jobs[cur + 1].firstpoint
    /\ diffractometer' = <<>>
    /\ UNCHANGED <<genvars, envvars>>

\* first next(): the file is opened, the first dataframe taken and the
\* first point of the job yielded
ProcStartYield ==
    /\ Idle
    /\ cur < Len(jobs)
    /\ get_filename(jobs[cur + 1].scan).raise = ""
    /\ LET job == jobs[cur + 1]
           d == get_diffractometer(files[job.scan])
           nxt == NextPoint(0, job.firstpoint, job, files[job.scan].groups)
       IN  /\ d.raise = ""
           /\ nxt # <<>>
           /\ diffractometer' = <<d>>
           /\ group' = nxt[1]
           /\ index' = nxt[2]
           /\ frames' = <<process_image(nxt[2], d)>>
    /\ cur' = cur + 1
    /\ ppc' = "yield"
    /\ perr' = <<>>
    /\ handles' = OpenFile(handles, cur + 1)
    /\ UNCHANGED <<genvars, envvars>>

\* first next(): the file is opened and there is nothing to yield (no
\* group in the file, or an empty point range); the file is closed
ProcStartStop ==
    /\ Idle
    /\ cur < Len(jobs)
    /\ get_filename(jobs[cur + 1].scan).raise = ""
    /\ LET job == jobs[cur + 1]
           d == get_diffractometer(files[job.scan])
       IN  /\ d.raise = ""
           /\ NextPoint(0, job.firstpoint, job, files[job.scan].groups) = <<>>
           /\ diffractometer' = <<d>>
           /\ index' = job.firstpoint
    /\ cur' = cur + 1
    /\ ppc' = "done"
    /\ perr' = <<>>
    /\ frames' = <<>>
    /\ group' = files[jobs[cur + 1].scan].groups
    /\ handles' = WithExit(OpenFile(handles, cur + 1))
    /\ UNCHANGED <<genvars, envvars>>

\* first next(): process_image raises on the first point; the exception is
\* annotated and raised again, the file closed
ProcStartFail ==
    /\ Idle
    /\ cur < Len(jobs)
    /\ get_filename(jobs[cur + 1].scan).raise = ""
    /\ LET job == jobs[cur + 1]
           d == get_diffractometer(files[job.scan])
           nxt == NextPoint(0, job.firstpoint, job, files[job.scan].groups)
       IN  /\ d.raise = ""
           /\ nxt # <<>>
           /\ diffractometer' = <<d>>
           /\ group' = nxt[1]
           /\ index' = nxt[2]
    /\ \E type \in Failures : perr' = <<Annotate(type, "process_image")>>
    /\ cur' = cur + 1
    /\ ppc' = "failed"
    /\ frames' = <<>>
    /\ handles' = WithExit(OpenFile(handles, cur + 1))
    /\ UNCHANGED <<genvars, envvars>>

\* next(): the next point is yielded (of the same dataframe, or the first
\* point again with the next dataframe)
ProcNextYield ==
    /\ ppc = "yield"
    /\ LET job == jobs[cur]
           nxt == NextPoint(group, index, job, files[job.scan].groups)
       IN  /\ nxt # <<>>
           /\ group' = nxt[1]
           /\ index' = nxt[2]
           /\ frames' = Append(frames, process_image(nxt[2], diffractometer[1]))
    /\ UNCHANGED <<cur, ppc, perr, handles, diffractometer, genvars, envvars>>

\* next(): both loops are over; the with block is left, the file closed
ProcNextStop ==
    /\ ppc = "yield"
    /\ NextPoint(group, index, jobs[cur], files[jobs[cur].scan].groups) = <<>>
    /\ ppc' = "done"
    /\ handles' = WithExit(handles)
    /\ UNCHANGED <<cur, group, index, frames, perr, diffractometer,
                   genvars, envvars>>

\* next(): process_image raises on the next point; the exception is
\* annotated and raised again, the file closed
ProcNextFail ==
    /\ ppc = "yield"
    /\ LET job == jobs[cur]
           nxt == NextPoint(group, index, job, files[job.scan].groups)
       IN  /\ nxt # <<>>
           /\ group' = nxt[1]
           /\ index' = nxt[2]
    /\ \E type \in Failures : perr' = <<Annotate(type, "process_image")>>
    /\ ppc' = "failed"
    /\ handles' = WithExit(handles)
    /\ UNCHANGED <<cur, frames, diffractometer, genvars, envvars>>

\* the consumer gives up the iteration: close() raises GeneratorExit at the
\* yield; it is no Exception, so the except clause lets it pass, and the
\* with block closes the file
ProcClose ==
    /\ ppc = "yield"
    /\ ppc' = "closed"
    /\ handles' = WithExit(handles)
    /\ UNCHANGED <<cur, group, index, frames, perr, diffractometer,
                   genvars, envvars>>

-----------------------------------------------------------------------------
(* Initial states.                                                         *)

InitGen ==
    /\ gpc = "start" /\ gi = 0 /\ start = 0 /\ pointcount = 0 /\ ci = 0
    /\ gerr = "" /\ jobs = <<>>

InitProc ==
    /\ cur = 0 /\ ppc = "idle" /\ group = 0 /\ index = 0 /\ frames = <<>>
    /\ perr = <<>> /\ handles = <<>> /\ diffractometer = <<>>
    /\ dbg_scanno = <<>> /\ dbg_pointno = <<>>

\* the point-range overrides of the job-splitter specification: every range
\* from a first bound in Starts with -1 to MaxN points
Overrides ==
    {pr \in Starts \X (-2..(MaxN + 2)) : pr[2] - pr[1] + 1 \in -1..MaxN}

\* the job splitter alone: one scan, every target weight, and every point
\* count, read from the file or set by an override (the file is then either
\* missing or holds MaxN points)
InitJobs ==
    /\ scans = <<1>>
    /\ \E tw \in 1..MaxT, pr \in {<<>>} \cup Overrides :
          config = [target_weight |-> tw, pr |-> pr, backend |-> "FlyScanUHV",
                    detrot |-> <<>>]
    /\ \E f \in ScanFiles(MaxN) \cup {MissingFile} :
          /\ f.exists => f.name = ZAXIS /\ f.groups = 1
          /\ f.exists /\ config.pr # <<>> => f.points = MaxN
          /\ files = [s \in ScanIds |-> IF s = 1 THEN f ELSE MissingFile]
    /\ InitGen
    /\ InitProc

\* a run: a command of up to two scans, each with its file (or none), and
\* a configuration
Init ==
    /\ scans \in Commands
    /\ files \in [ScanIds -> ScanFiles(MaxPts) \cup {MissingFile}]
    /\ \A s \in ScanIds : (\A k \in 1..Len(scans) : scans[k] # s) =>
          files[s] = MissingFile
    /\ config \in [target_weight : TargetWeights, pr : RunOverrides,
                   backend : Backends, detrot : Detrots]
    /\ InitGen
    /\ InitProc

Next ==
    \/ GenNextScan \/ GenNextChunk \/ GenRaise \/ GenStop
    \/ ProcStartConfigError \/ ProcStartGeometryError \/ ProcStartYield
    \/ ProcStartStop \/ ProcStartFail
    \/ ProcNextYield \/ ProcNextStop \/ ProcNextFail \/ ProcClose

Spec == Init /\ [][Next]_vars

NextJobs == GenNextScan \/ GenNextChunk \/ GenRaise \/ GenStop

SpecJobs == InitJobs /\ [][NextJobs]_vars

-----------------------------------------------------------------------------
(* What the claims speak of.                                               *)

\* the jobs generate_jobs has yielded for scan s, in order
JobsOf(s) == SelectSeq(jobs, LAMBDA j : j.scan = s)

\* the point count N of scan s: b - a + 1 under an override [a, b], else
\* the number of points in the file
ScanN(s) ==
    IF config.pr # <<>> THEN config.pr[2] - config.pr[1] + 1
                        ELSE files[s].points

\* the first point of the range of scan s
RangeStart(s) == IF config.pr # <<>> THEN config.pr[1] ELSE 0

\* generate_jobs was resumed after the last job of the k-th scan: that scan
\* has all its jobs
ScanComplete(k) == k <= Len(scans) /\ (gi > k \/ (gi = k /\ gpc = "done"))

\* the weights of a sequence of jobs
Weights(js) == [i \in 1..Len(js) |-> js[i].weight]

-----------------------------------------------------------------------------
(* Job splitter claims, under SpecJobs.                                    *)

\* C1: for N >= 1 and T >= 1, with or without an override, the jobs of a
\* scan start at the range start, each next job starts one past the last
\* point of the one before, and once the scan has all its jobs the last one
\* ends at range start + N - 1 and the weights sum to N.
C1_JobsPartitionRange ==
    \A k \in 1..Len(scans) :
        LET s == scans[k]
            js == JobsOf(s)
        IN  ScanN(s) >= 1 /\ config.target_weight >= 1 =>
              /\ js # <<>> => js[1].firstpoint = RangeStart(s)
              /\ \A i \in 1..Len(js) : js[i].firstpoint <= js[i].lastpoint
              /\ \A i \in 1..(Len(js) - 1) :
                    js[i + 1].firstpoint = js[i].lastpoint + 1
              /\ ScanComplete(k) =>
                    /\ js # <<>>
                    /\ Last(js).lastpoint = RangeStart(s) + ScanN(s) - 1
                    /\ SumWeights(js) = ScanN(s)

\* an override [3, 45] (N = 43) split at T = 30 into [3, 32] and [33, 45]
C1_Witness ==
    /\ gpc = "done"
    /\ config.pr = <<3, 45>>
    /\ config.target_weight = 30
    /\ jobs = <<Job(1, 3, 32, 30), Job(1, 33, 45, 13)>>

\* C2: whenever N <= 1.4 * T (5 N <= 7 T), the scan gets exactly one job,
\* from the range start to range start + N - 1, of weight N.
C2_SingleJobUpToThreshold ==
    \A k \in 1..Len(scans) :
        LET s == scans[k]
        IN  ScanComplete(k) /\ 5 * ScanN(s) <= 7 * config.target_weight =>
              JobsOf(s) = <<Job(s, RangeStart(s),
                                RangeStart(s) + ScanN(s) - 1, ScanN(s))>>

\* C3: whenever N > 1.4 * T (5 N > 7 T), the scan gets jobs of exactly T
\* points each, one after the other from the range start, and then one last
\* job with the remaining r points, 1 <= r <= T.
C3_ChunksOfTargetWeight ==
    \A k \in 1..Len(scans) :
        LET s == scans[k]
            js == JobsOf(s)
            n == Len(js)
            T == config.target_weight
        IN  ScanComplete(k) /\ 5 * ScanN(s) > 7 * T =>
              /\ n >= 2
              /\ \A i \in 1..(n - 1) :
                    js[i] = Job(s, RangeStart(s) + (i - 1) * T,
                                RangeStart(s) + i * T - 1, T)
              /\ js[n] = Job(s, RangeStart(s) + (n - 1) * T,
                             RangeStart(s) + ScanN(s) - 1,
                             ScanN(s) - (n - 1) * T)
              /\ js[n].weight \in 1..T

\* N = 100, T = 30: weights [30, 30, 30, 10], ranges [0,29] .. [90,99]
C3_Witness ==
    /\ gpc = "done"
    /\ config.pr = <<>>
    /\ config.target_weight = 30
    /\ files[1].points = 100
    /\ jobs = <<Job(1, 0, 29, 30), Job(1, 30, 59, 30), Job(1, 60, 89, 30),
                Job(1, 90, 99, 10)>>

\* C4: every job yielded has weight >= 1, lastpoint >= firstpoint and
\* weight = lastpoint - firstpoint + 1.
C4_JobsHavePositiveWeight ==
    \A i \in 1..Len(jobs) :
        /\ jobs[i].weight >= 1
        /\ jobs[i].lastpoint >= jobs[i].firstpoint
        /\ jobs[i].weight = jobs[i].lastpoint - jobs[i].firstpoint + 1

-----------------------------------------------------------------------------
(* Claims about a run, under Spec.                                         *)

\* the diffractometer names get_axes knows
Supported == {ZAXIS, SOLEIL_SIXS_MED1_2}

\* the file of the job process_job was last called with
CurFile == files[jobs[cur].scan]

\* C5: when process_image fails on a point of a job, the error that leaves
\* process_job is the original one, annotated with the scan of that job and
\* the index of that point, and the generator yields no further point.
C5_ErrorNamesScanAndPoint ==
    ppc = "failed" /\ perr[1].raised_in = "process_image" =>
        /\ perr[1].type \in Failures
        /\ perr[1].note = <<[scan |-> <<jobs[cur].scan>>, point |-> <<index>>]>>
        /\ ~ ENABLED ProcNextYield

\* C6: a ConfigError (missing scan file) or an unknown diffractometer name
\* is raised before any job is handed out (and so before any frame).
C6_ErrorsBeforeAnyJob ==
    \/ gerr = "ConfigError"
    \/ ppc = "failed" /\ perr[1].type \in {"ConfigError", "NotImplementedError"}
    => jobs = <<>> /\ frames = <<>>

\* C6, as the code has it: a job whose scan file is missing or carries an
\* unknown diffractometer name fails on its first step, with that error and
\* without a frame; without an override no job is handed out for a scan
\* whose file is missing, generate_jobs raising ConfigError when it reaches
\* that scan.
C6_ErrorsBeforeFramesOfJob ==
    /\ cur >= 1 /\ ~ CurFile.exists =>
          /\ ppc = "failed"
          /\ perr[1].type = "ConfigError"
          /\ frames = <<>>
    /\ cur >= 1 /\ CurFile.exists /\ CurFile.name \in Names \ Supported =>
          /\ ppc = "failed"
          /\ perr[1].type = "NotImplementedError"
          /\ frames = <<>>
    /\ config.pr = <<>> => \A i \in 1..Len(jobs) : files[jobs[i].scan].exists
    /\ gerr # "" =>
          /\ gerr = "ConfigError"
          /\ gpc = "raised"
          /\ config.pr = <<>>
          /\ ~ files[scans[gi]].exists
          /\ JobsOf(scans[gi]) = <<>>

\* the second scan's file is missing: generate_jobs raises after the job of
\* the first scan was handed out and has yielded a frame
C6_Witness ==
    /\ gerr = "ConfigError"
    /\ gi = 2
    /\ Len(jobs) = 1
    /\ cur = 1
    /\ frames # <<>>

\* C7: the file process_job opens for a job is closed when the job ends,
\* however it ends (its points exhausted, an exception, the consumer's
\* close()); a file is open only while its job is suspended at a yield;
\* every job that opens a file opens one of its own.
C7_HandleClosedInEveryOutcome ==
    /\ \A h \in 1..Len(handles) :
          handles[h].state = "open" =>
              ppc = "yield" /\ handles[h].job = cur /\ h = Len(handles)
    /\ ppc = "yield" => handles # <<>> /\ Last(handles).state = "open"
    /\ \/ ppc \in {"done", "closed"}
       \/ ppc = "failed" /\ perr[1].raised_in # "get_filename"
       => handles # <<>> /\ Last(handles) = [job |-> cur, state |-> "closed"]
    /\ \A h1, h2 \in 1..Len(handles) :
          handles[h1].job = handles[h2].job => h1 = h2

\* the second job was given up by its consumer after a frame: its file and
\* the first job's are closed
C7_Witness ==
    /\ ppc = "closed"
    /\ cur = 2
    /\ frames # <<>>
    /\ handles = <<[job |-> 1, state |-> "closed"],
                   [job |-> 2, state |-> "closed"]>>

\* lines 193-194, 206-207: the reference root and the mount axes
Root(name) == IF name = ZAXIS THEN "mu" ELSE "pitch"
SampleMount(name) == IF name = ZAXIS THEN "omega" ELSE "mu"
DetectorMount(name) == IF name = ZAXIS THEN "gamma" ELSE "delta"

NoRepeat(chain) == \A i, j \in 1..Len(chain) : chain[i] = chain[j] => i = j

\* the names whose axes are as C8 says
TreeChained ==
    {name \in Names :
        LET a == get_axes(name)
            g == a.graph
        IN  /\ a.raise = ""
            /\ a.sample # <<>> /\ a.detector # <<>>
            /\ Paths(g, Root(name), SampleMount(name)) = {a.sample}
            /\ Paths(g, Root(name), DetectorMount(name)) = {a.detector}
            /\ NoRepeat(a.sample) /\ NoRepeat(a.detector)
            /\ \A n \in DOMAIN g.node :
                  Cardinality(Paths(g, Root(name), n)) = 1
            /\ \A e \in g.edges : e[2] # Root(name)
            /\ Cardinality(g.edges) = Cardinality(DOMAIN g.node) - 1}

\* C8: the chains resolved for a supported name are each the only path
\* from the reference root to the mount axis, non-empty and without a
\* repeated axis, in a graph that is a tree rooted at the reference root.
C8_ChainsAreUniquePaths ==
    diffractometer # <<>> =>
        /\ diffractometer[1].name \in Supported
        /\ diffractometer[1].axes = get_axes(diffractometer[1].name)
        /\ diffractometer[1].name \in TreeChained

\* a frame of a SOLEIL SIXS MED1+2 file, with the chains pitch, mu and
\* pitch, gamma, delta
C8_Witness ==
    /\ ppc = "yield"
    /\ diffractometer # <<>>
    /\ diffractometer[1].name = SOLEIL_SIXS_MED1_2
    /\ diffractometer[1].axes.sample = <<"pitch", "mu">>
    /\ diffractometer[1].axes.detector = <<"pitch", "gamma", "delta">>

\* the error kind UnsupportedGeometryError: the NotImplementedError of
\* lines 209-210
UnsupportedGeometryError(e) == e.type = "NotImplementedError"

\* C9: for a name that is not supported, chain resolution fails with
\* UnsupportedGeometryError and no chains are returned (no diffractometer
\* is built, no frame computed).
C9_UnknownNameRaises ==
    /\ \A name \in Names \ Supported :
          /\ get_axes(name).raise # ""
          /\ get_axes(name).sample = <<>> /\ get_axes(name).detector = <<>>
    /\ cur >= 1 /\ CurFile.exists /\ CurFile.name \in Names \ Supported =>
          /\ ppc = "failed"
          /\ UnsupportedGeometryError(perr[1])
          /\ perr[1].raised_in = "dataframes"
          /\ diffractometer = <<>>
          /\ frames = <<>>

\* a job of a file named "zaxis" has failed
C9_Witness ==
    /\ cur >= 1
    /\ CurFile.exists
    /\ CurFile.name = "zaxis"
    /\ ppc = "failed"
    /\ perr[1].type = "NotImplementedError"

\* the factors of a rotation pair the i-th value with the i-th axis of the
\* chain, the value read from the channel named as the axis, at point idx
PairedByName(rot, chain, graph, idx) ==
    /\ Len(rot) = Len(chain)
    /\ \A i \in 1..Len(chain) :
          /\ rot[i].theta.key = chain[i]
          /\ rot[i].theta.index = idx
          /\ rot[i].u = graph.node[chain[i]]

\* C10: whatever the backend and the supported name in the file, each
\* frame's R and P pair the i-th value with the i-th chain axis, the value
\* read from the channel of that axis name, no axis or value left over,
\* the factors in chain order.
C10_ValuesPairedWithOwnAxes ==
    \A k \in 1..Len(frames) :
        LET a == diffractometer[1].axes
            v == get_values(config.backend, frames[k].index)
        IN  /\ Len(v.s_values) = Len(a.sample)
            /\ Len(v.d_values) = Len(a.detector)
            /\ PairedByName(frames[k].R, a.sample, a.graph, frames[k].index)
            /\ PairedByName(SubSeq(frames[k].P, 1, Len(a.detector)),
                            a.detector, a.graph, frames[k].index)

-----------------------------------------------------------------------------
(* The frames of a job, under Spec.                                        *)

\* the point indices of a sequence of frames
Indices(fs) == [k \in 1..Len(fs) |-> fs[k].index]

\* the indices a, a + 1, ..., b (none when b < a)
RangeSeq(a, b) == [k \in 1..(b - a + 1) |-> a + k - 1]

RECURSIVE Repeat(_, _)
\* the sequence s, n times over
Repeat(s, n) == IF n <= 0 THEN <<>> ELSE s \o Repeat(s, n - 1)

\* C11: a process_job run that ends without failing has yielded exactly
\* one frame for each index of [firstpoint, lastpoint], in ascending order,
\* and none for another index, whatever the number of groups in the file.
C11_OneFramePerPoint ==
    cur >= 1 /\ ppc = "done" =>
        Indices(frames) = RangeSeq(jobs[cur].firstpoint, jobs[cur].lastpoint)

\* C11, as the code has it: the run yields the indices of [firstpoint,
\* lastpoint] in ascending order once for each top-level group of the
\* file, one group after the other (once each when the file has one
\* group), and no index outside the range; a run that is still going has
\* yielded a prefix of that.  (A file without a group fails in
\* get_diffractometer: its runs yield nothing.)
C11_OneFramePerPointAndGroup ==
    cur >= 1 =>
        LET job == jobs[cur]
            all == Repeat(RangeSeq(job.firstpoint, job.lastpoint),
                          CurFile.groups)
        IN  /\ \A k \in 1..Len(frames) :
                  frames[k].index \in job.firstpoint..job.lastpoint
            /\ Len(frames) <= Len(all)
            /\ Indices(frames) = SubSeq(all, 1, Len(frames))
            /\ ppc = "done" => Indices(frames) = all

\* a job of the points 0 and 1 on a file of two groups has ended: four
\* frames, of the indices 0, 1, 0, 1
C11_Witness ==
    /\ cur >= 1
    /\ ppc = "done"
    /\ CurFile.groups = 2
    /\ jobs[cur].firstpoint = 0
    /\ jobs[cur].lastpoint = 1
    /\ Indices(frames) = <<0, 1, 0, 1>>

=============================================================================
